---- MODULE Spec2Model ----
(***************************************************************************)
(* Model of mcp-server-fakestore: an MCP server whose call-tool handler    *)
(* routes a tool name and an argument bag to a resource function           *)
(* (products, carts, users), which validates the arguments and calls one   *)
(* of the HTTP wrappers get/post/put/del; a request interceptor keeps an   *)
(* in-process request counter with delayed decrements.                     *)
(*                                                                         *)
(* JavaScript values are tagged records.  A number is kept in hundredths   *)
(* (field c), so 19.99 is 1999 and an integer is a multiple of 100.  A     *)
(* string is the sequence of its characters.  A thrown value records       *)
(* whether it is an instance of Error.                                     *)
(***************************************************************************)
EXTENDS Integers, Sequences, FiniteSets, Bags, TLC

VARIABLES
  requestCount,  \* the interceptor's counter
  timers,        \* bag of the times at which a pending decrement is due
  now,           \* the time, in milliseconds
  phase,         \* "idle", or "responded" once the handler has returned
  call,          \* the invocation just handled: its input, the wrapper calls
                 \* it issued, what was thrown and what the handler returned
  calls,         \* invocations handled so far
  inflight       \* bag of the invocations that await their upstream request

vars == <<requestCount, timers, now, phase, call, calls, inflight>>

---------------------------------------------------------------------------
(* Bounds of the model *)

MaxCalls == 2          \* tool invocations in one behaviour of Spec
MaxRateCalls == 3      \* tool invocations in one behaviour of SpecRate, SpecOverlap
MaxWindows == 2        \* rate-limit windows that pass in SpecRate
MaxMissing == 2        \* keys left out of an otherwise complete add-user bag
MaxSupplied == 3       \* optional keys supplied in an update-user bag
MaxInflight == 2       \* invocations of SpecOverlap that await at one time

---------------------------------------------------------------------------
(* JavaScript values *)

Undefined == [t |-> "undefined"]
Null == [t |-> "null"]
Num(c) == [t |-> "number", c |-> c]
IntV(n) == Num(100 * n)
Str(s) == [t |-> "string", s |-> s]
Arr(a) == [t |-> "array", a |-> a]
Obj(f) == [t |-> "object", f |-> f]

TypeOf(v) == IF v.t \in {"null", "array", "object"} THEN "object" ELSE v.t

IsInteger(v) == v.t = "number" /\ v.c % 100 = 0

Truthy(v) ==
  CASE v.t = "undefined" -> FALSE
    [] v.t = "null" -> FALSE
    [] v.t = "number" -> v.c # 0
    [] v.t = "string" -> v.s # <<>>
    [] OTHER -> TRUE

IsArray(v) == v.t = "array"

\* args.k of a destructuring: a key the bag does not hold reads as undefined
Get(args, k) == IF k \in DOMAIN args.f THEN args.f[k] ELSE Undefined

\* the object holding exactly the keys of ks whose value in args is not undefined
PickDefined(args, ks) ==
  [k \in {x \in ks : Get(args, x) # Undefined} |-> Get(args, k)]

WhiteSpace == {" ", "\t", "\n"}

RECURSIVE TrimStart(_)
TrimStart(s) ==
  IF s # <<>> /\ Head(s) \in WhiteSpace THEN TrimStart(Tail(s)) ELSE s

RECURSIVE TrimEnd(_)
TrimEnd(s) ==
  IF s # <<>> /\ s[Len(s)] \in WhiteSpace
    THEN TrimEnd(SubSeq(s, 1, Len(s) - 1)) ELSE s

Trim(s) == TrimEnd(TrimStart(s))

DigitChar == <<"0", "1", "2", "3", "4", "5", "6", "7", "8", "9">>

RECURSIVE Digits(_)
Digits(n) ==
  IF n < 10 THEN <<DigitChar[n + 1]>>
  ELSE Digits(n \div 10) \o <<DigitChar[(n % 10) + 1]>>

\* `${id}` of a validated positive integer
NumToString(v) == Digits(v.c \div 100)

---------------------------------------------------------------------------
(* Thrown values and results *)

JSError(msg) == [instanceofError |-> TRUE, isAxiosError |-> FALSE,
                 message |-> msg, status |-> Undefined, code |-> Undefined]

AxiosError(msg, status, code) ==
  [instanceofError |-> TRUE, isAxiosError |-> TRUE,
   message |-> msg, status |-> status, code |-> code]

Return == [threw |-> FALSE]
Throw(e) == [threw |-> TRUE, error |-> e]

\* const { k, ... } = args  with args undefined
DestructureError(k) ==
  JSError("Cannot destructure property '" \o k \o "' of 'args' as it is undefined.")

---------------------------------------------------------------------------
(* Validators *)

validatePositiveInteger(value, fieldName) ==
  IF TypeOf(value) # "number" \/ ~IsInteger(value) \/ value.c <= 0
    THEN Throw(JSError(fieldName \o " must be a positive integer"))
    ELSE Return

\* a sort-order check that compares without regard to case
validateSortOrder_anyCase(value) ==
  IF value # Undefined
       /\ value \notin {Str(<<"a", "s", "c">>), Str(<<"A", "S", "C">>),
                       Str(<<"d", "e", "s", "c">>), Str(<<"D", "e", "s", "c">>)}
    THEN Throw(JSError("Sort order must be \"asc\" or \"desc\""))
    ELSE Return

validateSortOrder(value) ==
  IF value # Undefined /\ value # Str(<<"a", "s", "c">>)
       /\ value # Str(<<"d", "e", "s", "c">>)
    THEN Throw(JSError("Sort order must be \"asc\" or \"desc\""))
    ELSE Return

validateLimit(value) ==
  IF value # Undefined
       /\ (TypeOf(value) # "number" \/ ~IsInteger(value) \/ value.c <= 0)
    THEN Throw(JSError("Limit must be a positive integer"))
    ELSE Return

validateString(value, fieldName) ==
  IF TypeOf(value) # "string" \/ Len(Trim(value.s)) = 0
    THEN Throw(JSError(fieldName \o " must be a non-empty string"))
    ELSE Return

\* new URL(value): the scheme up to the first ':', and for a special scheme
\* a non-empty host after the slashes.  Letters are lower case in the model.
Alpha == {"a", "b", "c", "d", "e", "f", "g", "h", "i", "j", "k", "l", "m",
          "n", "o", "p", "q", "r", "s", "t", "u", "v", "w", "x", "y", "z"}

SchemeChars == Alpha \cup {DigitChar[i] : i \in 1..10} \cup {"+", "-", "."}

SpecialSchemes == {<<"h", "t", "t", "p">>, <<"h", "t", "t", "p", "s">>,
                   <<"f", "t", "p">>, <<"w", "s">>, <<"w", "s", "s">>}

IndexOf(s, chs) ==
  IF \E i \in 1..Len(s) : s[i] \in chs
    THEN CHOOSE i \in 1..Len(s) :
           s[i] \in chs /\ \A j \in 1..(i - 1) : s[j] \notin chs
    ELSE 0

RECURSIVE SkipSlashes(_)
SkipSlashes(s) ==
  IF s # <<>> /\ Head(s) \in {"/", "\\"} THEN SkipSlashes(Tail(s)) ELSE s

URLParse(value) ==
  LET s == Trim(value)
      i == IndexOf(s, {":"})
      scheme == SubSeq(s, 1, i - 1)
      rest == SkipSlashes(SubSeq(s, i + 1, Len(s)))
      e == IndexOf(rest, {"/", "?", "#"})
      host == IF e = 0 THEN rest ELSE SubSeq(rest, 1, e - 1)
  IN IF i <= 1 \/ scheme[1] \notin Alpha
          \/ \E j \in 1..Len(scheme) : scheme[j] \notin SchemeChars
       THEN [ok |-> FALSE]
     ELSE IF scheme \in SpecialSchemes
               /\ (host = <<>> \/ \E j \in 1..Len(host) : host[j] \in WhiteSpace)
       THEN [ok |-> FALSE]
     ELSE [ok |-> TRUE, protocol |-> scheme \o <<":">>]

\* the protocol check throws inside the try block, so its error is replaced
\* by the catch block's
validateUrl(value, fieldName) ==
  IF TypeOf(value) # "string" \/ Len(Trim(value.s)) = 0
    THEN Throw(JSError(fieldName \o " must be a non-empty string"))
  ELSE LET url == URLParse(value.s)
           inTry == IF ~url.ok THEN Throw(JSError("Invalid URL"))
                    ELSE IF url.protocol \notin {<<"h", "t", "t", "p", ":">>,
                                                 <<"h", "t", "t", "p", "s", ":">>}
                      THEN Throw(JSError(fieldName \o " must use HTTP or HTTPS protocol"))
                    ELSE Return
       IN IF inTry.threw
            THEN Throw(JSError(fieldName \o " must be a valid URL"))
            ELSE Return

\* encodeURIComponent: every character outside the unreserved set is replaced
\* by '%' and the two hex digits of its code
Unreserved == Alpha \cup {DigitChar[i] : i \in 1..10}
                \cup {"-", "_", ".", "!", "~", "*", "'", "(", ")"}

HexCode(ch) ==
  CASE ch = " " -> <<"2", "0">>
    [] ch = "#" -> <<"2", "3">>
    [] ch = "%" -> <<"2", "5">>
    [] ch = "&" -> <<"2", "6">>
    [] ch = "/" -> <<"2", "F">>
    [] ch = ":" -> <<"3", "A">>
    [] ch = "?" -> <<"3", "F">>
    [] ch = "@" -> <<"4", "0">>
    [] ch = "\t" -> <<"0", "9">>
    [] ch = "\n" -> <<"0", "A">>
    [] ch = "\\" -> <<"5", "C">>

RECURSIVE encodeURIComponent(_)
encodeURIComponent(s) ==
  IF s = <<>> THEN <<>>
  ELSE (IF Head(s) \in Unreserved THEN <<Head(s)>>
        ELSE <<"%">> \o HexCode(Head(s)))
       \o encodeURIComponent(Tail(s))

\* a sanitizer that trims and does not encode
sanitizePathSegment_noEncode(value) == Trim(value)

sanitizePathSegment(value) == encodeURIComponent(Trim(value))

---------------------------------------------------------------------------
(* HTTP wrappers: the request each one hands to the axios instance *)

get(endpoint, params) ==
  [threw |-> FALSE, method |-> "GET", url |-> endpoint,
   params |-> params, data |-> Undefined]

post(endpoint, data) ==
  [threw |-> FALSE, method |-> "POST", url |-> endpoint,
   params |-> Undefined, data |-> data]

put(endpoint, data) ==
  [threw |-> FALSE, method |-> "PUT", url |-> endpoint,
   params |-> Undefined, data |-> data]

del(endpoint) ==
  [threw |-> FALSE, method |-> "DELETE", url |-> endpoint,
   params |-> Undefined, data |-> Undefined]

\* if (limit) params.limit = limit; if (sort) params.sort = sort;
ListParams(args) ==
  Obj([k \in {x \in {"limit", "sort"} : Truthy(Get(args, x))} |-> Get(args, k)])

---------------------------------------------------------------------------
(* Products *)

getAllProducts(args) ==
  IF args = Undefined THEN Throw(DestructureError("limit"))
  ELSE LET limit == Get(args, "limit")
           sort == Get(args, "sort")
           v1 == IF limit # Undefined THEN validateLimit(limit) ELSE Return
           v2 == IF sort # Undefined THEN validateSortOrder(sort) ELSE Return
       IN IF v1.threw THEN v1
          ELSE IF v2.threw THEN v2
          ELSE get(<<"/products">>, ListParams(args))

getProductById(args) ==
  IF args = Undefined THEN Throw(DestructureError("id"))
  ELSE LET id == Get(args, "id")
           v == validatePositiveInteger(id, "Product ID")
       IN IF v.threw THEN v
          ELSE get(<<"/products/">> \o NumToString(id), Undefined)

getCategories == get(<<"/products/categories">>, Undefined)

getProductsByCategory(args) ==
  IF args = Undefined THEN Throw(DestructureError("category"))
  ELSE LET category == Get(args, "category")
       IN IF ~Truthy(category) \/ TypeOf(category) # "string"
            THEN Throw(JSError("Category must be a non-empty string"))
          ELSE get(<<"/products/category/">> \o sanitizePathSegment(category.s),
                   Undefined)

\* an addProduct whose price check lets zero through
addProduct_acceptsZeroPrice(args) ==
  IF args = Undefined THEN Throw(DestructureError("title"))
  ELSE LET title == Get(args, "title")
           price == Get(args, "price")
           description == Get(args, "description")
           image == Get(args, "image")
           category == Get(args, "category")
           vImage == validateUrl(image, "Image URL")
       IN IF ~Truthy(title) \/ TypeOf(title) # "string"
            THEN Throw(JSError("Title must be a non-empty string"))
          ELSE IF TypeOf(price) # "number" \/ price.c < 0
            THEN Throw(JSError("Price must be a positive number"))
          ELSE IF ~Truthy(description) \/ TypeOf(description) # "string"
            THEN Throw(JSError("Description must be a non-empty string"))
          ELSE IF vImage.threw THEN vImage
          ELSE IF ~Truthy(category) \/ TypeOf(category) # "string"
            THEN Throw(JSError("Category must be a non-empty string"))
          ELSE post(<<"/products">>,
                    Obj([title |-> title, price |-> price,
                         description |-> description, image |-> image,
                         category |-> category]))

addProduct(args) ==
  IF args = Undefined THEN Throw(DestructureError("title"))
  ELSE LET title == Get(args, "title")
           price == Get(args, "price")
           description == Get(args, "description")
           image == Get(args, "image")
           category == Get(args, "category")
           vImage == validateUrl(image, "Image URL")
       IN IF ~Truthy(title) \/ TypeOf(title) # "string"
            THEN Throw(JSError("Title must be a non-empty string"))
          ELSE IF TypeOf(price) # "number" \/ price.c <= 0
            THEN Throw(JSError("Price must be a positive number"))
          ELSE IF ~Truthy(description) \/ TypeOf(description) # "string"
            THEN Throw(JSError("Description must be a non-empty string"))
          ELSE IF vImage.threw THEN vImage
          ELSE IF ~Truthy(category) \/ TypeOf(category) # "string"
            THEN Throw(JSError("Category must be a non-empty string"))
          ELSE post(<<"/products">>,
                    Obj([title |-> title, price |-> price,
                         description |-> description, image |-> image,
                         category |-> category]))

updateProduct(args) ==
  IF args = Undefined THEN Throw(DestructureError("id"))
  ELSE LET id == Get(args, "id")
           image == Get(args, "image")
           vId == validatePositiveInteger(id, "Product ID")
           vImage == IF image # Undefined
                       THEN validateUrl(image, "Image URL") ELSE Return
           updateData == PickDefined(args, {"title", "price", "description",
                                            "image", "category"})
       IN IF vId.threw THEN vId
          ELSE IF vImage.threw THEN vImage
          ELSE put(<<"/products/">> \o NumToString(id), Obj(updateData))

deleteProduct(args) ==
  IF args = Undefined THEN Throw(DestructureError("id"))
  ELSE LET id == Get(args, "id")
           v == validatePositiveInteger(id, "Product ID")
       IN IF v.threw THEN v
          ELSE del(<<"/products/">> \o NumToString(id))

---------------------------------------------------------------------------
(* Carts *)

getAllCarts(args) ==
  IF args = Undefined THEN Throw(DestructureError("limit"))
  ELSE LET limit == Get(args, "limit")
           sort == Get(args, "sort")
           v1 == IF limit # Undefined THEN validateLimit(limit) ELSE Return
           v2 == IF sort # Undefined THEN validateSortOrder(sort) ELSE Return
       IN IF v1.threw THEN v1
          ELSE IF v2.threw THEN v2
          ELSE get(<<"/carts">>, ListParams(args))

getCartById(args) ==
  IF args = Undefined THEN Throw(DestructureError("id"))
  ELSE LET id == Get(args, "id")
           v == validatePositiveInteger(id, "Cart ID")
       IN IF v.threw THEN v
          ELSE get(<<"/carts/">> \o NumToString(id), Undefined)

\* a getUserCarts that asks for the cart with that id
getUserCarts_cartPath(args) ==
  IF args = Undefined THEN Throw(DestructureError("userId"))
  ELSE LET userId == Get(args, "userId")
           v == validatePositiveInteger(userId, "User ID")
       IN IF v.threw THEN v
          ELSE get(<<"/carts/">> \o NumToString(userId), Undefined)

getUserCarts(args) ==
  IF args = Undefined THEN Throw(DestructureError("userId"))
  ELSE LET userId == Get(args, "userId")
           v == validatePositiveInteger(userId, "User ID")
       IN IF v.threw THEN v
          ELSE get(<<"/carts/user/">> \o NumToString(userId), Undefined)

\* product.productId / product.quantity of one element of products
ItemField(product, k) ==
  IF product.t = "object" /\ k \in DOMAIN product.f
    THEN product.f[k] ELSE Undefined

\* the body of the forEach callback of addCart, for the element at index
\* (0-based in the source, so the message names index + 1 = i)
CheckCartProduct(product, i) ==
  IF product.t \in {"null", "undefined"}
    THEN Throw(JSError("Cannot read properties of " \o product.t
                         \o " (reading 'productId')"))
  ELSE LET productId == ItemField(product, "productId")
           quantity == ItemField(product, "quantity")
       IN IF TypeOf(productId) # "number" \/ productId.c <= 0
            THEN Throw(JSError("Product " \o ToString(i)
                                 \o ": productId must be a positive number"))
          ELSE IF TypeOf(quantity) # "number" \/ quantity.c <= 0
            THEN Throw(JSError("Product " \o ToString(i)
                                 \o ": quantity must be a positive number"))
          ELSE Return

\* products.forEach(...): the first element whose callback throws ends the loop
ForEachCartProduct(products) ==
  IF \E i \in 1..Len(products) : CheckCartProduct(products[i], i).threw
    THEN CheckCartProduct(
           products[CHOOSE i \in 1..Len(products) :
                      /\ CheckCartProduct(products[i], i).threw
                      /\ \A j \in 1..(i - 1) :
                           ~CheckCartProduct(products[j], j).threw],
           CHOOSE i \in 1..Len(products) :
             /\ CheckCartProduct(products[i], i).threw
             /\ \A j \in 1..(i - 1) : ~CheckCartProduct(products[j], j).threw)
    ELSE Return

addCart(args) ==
  IF args = Undefined THEN Throw(DestructureError("userId"))
  ELSE LET userId == Get(args, "userId")
           date == Get(args, "date")
           products == Get(args, "products")
           vUser == validatePositiveInteger(userId, "User ID")
       IN IF vUser.threw THEN vUser
          ELSE IF ~Truthy(date) \/ TypeOf(date) # "string"
            THEN Throw(JSError("Date must be a non-empty string"))
          ELSE IF ~IsArray(products) \/ Len(products.a) = 0
            THEN Throw(JSError("Products must be a non-empty array"))
          ELSE IF ForEachCartProduct(products.a).threw
            THEN ForEachCartProduct(products.a)
          ELSE post(<<"/carts">>,
                    Obj([userId |-> userId, date |-> date,
                         products |-> products]))

updateCart(args) ==
  IF args = Undefined THEN Throw(DestructureError("id"))
  ELSE LET id == Get(args, "id")
           userId == Get(args, "userId")
           products == Get(args, "products")
           vId == validatePositiveInteger(id, "Cart ID")
           vUser == IF userId # Undefined
                      THEN validatePositiveInteger(userId, "User ID")
                      ELSE Return
           updateData == PickDefined(args, {"userId", "date", "products"})
       IN IF vId.threw THEN vId
          ELSE IF vUser.threw THEN vUser
          ELSE IF products # Undefined
                    /\ (~IsArray(products) \/ Len(products.a) = 0)
            THEN Throw(JSError("Products must be a non-empty array"))
          ELSE put(<<"/carts/">> \o NumToString(id), Obj(updateData))

deleteCart(args) ==
  IF args = Undefined THEN Throw(DestructureError("id"))
  ELSE LET id == Get(args, "id")
           v == validatePositiveInteger(id, "Cart ID")
       IN IF v.threw THEN v
          ELSE del(<<"/carts/">> \o NumToString(id))

---------------------------------------------------------------------------
(* Users *)

getAllUsers(args) ==
  IF args = Undefined THEN Throw(DestructureError("limit"))
  ELSE LET limit == Get(args, "limit")
           sort == Get(args, "sort")
           v1 == IF limit # Undefined THEN validateLimit(limit) ELSE Return
           v2 == IF sort # Undefined THEN validateSortOrder(sort) ELSE Return
       IN IF v1.threw THEN v1
          ELSE IF v2.threw THEN v2
          ELSE get(<<"/users">>, ListParams(args))

getUserById(args) ==
  IF args = Undefined THEN Throw(DestructureError("id"))
  ELSE LET id == Get(args, "id")
           v == validatePositiveInteger(id, "User ID")
       IN IF v.threw THEN v
          ELSE get(<<"/users/">> \o NumToString(id), Undefined)

addUser(args) ==
  IF args = Undefined THEN Throw(DestructureError("email"))
  ELSE LET email == Get(args, "email")
           username == Get(args, "username")
           password == Get(args, "password")
           firstname == Get(args, "firstname")
           lastname == Get(args, "lastname")
       IN IF ~Truthy(email) \/ TypeOf(email) # "string"
            THEN Throw(JSError("Email must be a non-empty string"))
          ELSE IF ~Truthy(username) \/ TypeOf(username) # "string"
            THEN Throw(JSError("Username must be a non-empty string"))
          ELSE IF ~Truthy(password) \/ TypeOf(password) # "string"
            THEN Throw(JSError("Password must be a non-empty string"))
          ELSE IF ~Truthy(firstname) \/ TypeOf(firstname) # "string"
            THEN Throw(JSError("First name must be a non-empty string"))
          ELSE IF ~Truthy(lastname) \/ TypeOf(lastname) # "string"
            THEN Throw(JSError("Last name must be a non-empty string"))
          ELSE post(<<"/users">>,
                 Obj([email |-> email, username |-> username,
                      password |-> password,
                      name |-> Obj([firstname |-> firstname,
                                    lastname |-> lastname]),
                      address |->
                        Obj([city |-> Get(args, "city"),
                             street |-> Get(args, "street"),
                             number |-> Get(args, "number"),
                             zipcode |-> Get(args, "zipcode"),
                             geolocation |->
                               Obj([lat |-> Get(args, "lat"),
                                    long |-> Get(args, "long")])]),
                      phone |-> Get(args, "phone")]))

EmptyObject == [k \in {} |-> Undefined]

\* an updateUser that creates address.geolocation with every address
updateUser_alwaysGeolocation(args) ==
  IF args = Undefined THEN Throw(DestructureError("id"))
  ELSE LET id == Get(args, "id")
           vId == validatePositiveInteger(id, "User ID")
           Defined(ks) == \E k \in ks : Get(args, k) # Undefined
           geolocation == PickDefined(args, {"lat", "long"})
           address ==
             PickDefined(args, {"city", "street", "number", "zipcode"})
               @@ [geolocation |-> Obj(geolocation)]
           updateData ==
             PickDefined(args, {"email", "username", "password", "phone"})
               @@ (IF Defined({"firstname", "lastname"})
                     THEN [name |-> Obj(PickDefined(args, {"firstname",
                                                          "lastname"}))]
                     ELSE EmptyObject)
               @@ (IF Defined({"city", "street", "number", "zipcode",
                               "lat", "long"})
                     THEN [address |-> Obj(address)]
                     ELSE EmptyObject)
       IN IF vId.threw THEN vId
          ELSE put(<<"/users/">> \o NumToString(id), Obj(updateData))

updateUser(args) ==
  IF args = Undefined THEN Throw(DestructureError("id"))
  ELSE LET id == Get(args, "id")
           vId == validatePositiveInteger(id, "User ID")
           Defined(ks) == \E k \in ks : Get(args, k) # Undefined
           geolocation == PickDefined(args, {"lat", "long"})
           address ==
             PickDefined(args, {"city", "street", "number", "zipcode"})
               @@ (IF Defined({"lat", "long"})
                     THEN [geolocation |-> Obj(geolocation)]
                     ELSE EmptyObject)
           updateData ==
             PickDefined(args, {"email", "username", "password", "phone"})
               @@ (IF Defined({"firstname", "lastname"})
                     THEN [name |-> Obj(PickDefined(args, {"firstname",
                                                          "lastname"}))]
                     ELSE EmptyObject)
               @@ (IF Defined({"city", "street", "number", "zipcode",
                               "lat", "long"})
                     THEN [address |-> Obj(address)]
                     ELSE EmptyObject)
       IN IF vId.threw THEN vId
          ELSE put(<<"/users/">> \o NumToString(id), Obj(updateData))

deleteUser(args) ==
  IF args = Undefined THEN Throw(DestructureError("id"))
  ELSE LET id == Get(args, "id")
           v == validatePositiveInteger(id, "User ID")
       IN IF v.threw THEN v
          ELSE del(<<"/users/">> \o NumToString(id))

---------------------------------------------------------------------------
(* The tool catalog *)

productTools ==
  << [name |-> "fakestore_get_products",
      properties |-> {"limit", "sort"}, required |-> {}],
     [name |-> "fakestore_get_product",
      properties |-> {"id"}, required |-> {"id"}],
     [name |-> "fakestore_get_categories",
      properties |-> {}, required |-> {}],
     [name |-> "fakestore_get_products_by_category",
      properties |-> {"category"}, required |-> {"category"}],
     [name |-> "fakestore_add_product",
      properties |-> {"title", "price", "description", "image", "category"},
      required |-> {"title", "price", "description", "image", "category"}],
     [name |-> "fakestore_update_product",
      properties |-> {"id", "title", "price", "description", "image",
                      "category"},
      required |-> {"id"}],
     [name |-> "fakestore_delete_product",
      properties |-> {"id"}, required |-> {"id"}] >>

cartTools ==
  << [name |-> "fakestore_get_carts",
      properties |-> {"limit", "sort"}, required |-> {}],
     [name |-> "fakestore_get_cart",
      properties |-> {"id"}, required |-> {"id"}],
     [name |-> "fakestore_get_user_carts",
      properties |-> {"userId"}, required |-> {"userId"}],
     [name |-> "fakestore_add_cart",
      properties |-> {"userId", "date", "products"},
      required |-> {"userId", "date", "products"}],
     [name |-> "fakestore_update_cart",
      properties |-> {"id", "userId", "date", "products"},
      required |-> {"id"}],
     [name |-> "fakestore_delete_cart",
      properties |-> {"id"}, required |-> {"id"}] >>

UserFields == {"email", "username", "password", "firstname", "lastname",
               "city", "street", "number", "zipcode", "lat", "long", "phone"}

userTools ==
  << [name |-> "fakestore_get_users",
      properties |-> {"limit", "sort"}, required |-> {}],
     [name |-> "fakestore_get_user",
      properties |-> {"id"}, required |-> {"id"}],
     [name |-> "fakestore_add_user",
      properties |-> UserFields, required |-> UserFields],
     [name |-> "fakestore_update_user",
      properties |-> {"id"} \cup UserFields, required |-> {"id"}],
     [name |-> "fakestore_delete_user",
      properties |-> {"id"}, required |-> {"id"}] >>

\* a list-tools response that leaves the user tools out
ListTools_withoutUserTools == productTools \o cartTools

\* the list-tools handler's response
ListTools == productTools \o cartTools \o userTools

CatalogNames == {ListTools[i].name : i \in 1..Len(ListTools)}

Descriptor(name) ==
  ListTools[CHOOSE i \in 1..Len(ListTools) : ListTools[i].name = name]

---------------------------------------------------------------------------
(* The call-tool handler *)

\* a dispatcher whose last branch serves the categories instead of throwing
UnknownTool_fallsBack(name) == getCategories

UnknownTool(name) == Throw(JSError("Unknown tool: " \o name))

\* the chain of  if (name === '...')  tests and the resource function each
\* one calls; the result is what the function throws or the request it makes
Route(name, args) ==
  CASE name = "fakestore_get_products" -> getAllProducts(args)
    [] name = "fakestore_get_product" -> getProductById(args)
    [] name = "fakestore_get_categories" -> getCategories
    [] name = "fakestore_get_products_by_category" -> getProductsByCategory(args)
    [] name = "fakestore_add_product" -> addProduct(args)
    [] name = "fakestore_update_product" -> updateProduct(args)
    [] name = "fakestore_delete_product" -> deleteProduct(args)
    [] name = "fakestore_get_carts" -> getAllCarts(args)
    [] name = "fakestore_get_cart" -> getCartById(args)
    [] name = "fakestore_get_user_carts" -> getUserCarts(args)
    [] name = "fakestore_add_cart" -> addCart(args)
    [] name = "fakestore_update_cart" -> updateCart(args)
    [] name = "fakestore_delete_cart" -> deleteCart(args)
    [] name = "fakestore_get_users" -> getAllUsers(args)
    [] name = "fakestore_get_user" -> getUserById(args)
    [] name = "fakestore_add_user" -> addUser(args)
    [] name = "fakestore_update_user" -> updateUser(args)
    [] name = "fakestore_delete_user" -> deleteUser(args)
    [] OTHER -> UnknownTool(name)

---------------------------------------------------------------------------
(* JSON.stringify(result, null, 2) *)

RECURSIVE Join(_)
Join(s) == IF s = <<>> THEN "" ELSE Head(s) \o Join(Tail(s))

EscapeChar(ch) ==
  CASE ch = "\"" -> "\\\""
    [] ch = "\\" -> "\\\\"
    [] ch = "\n" -> "\\n"
    [] ch = "\t" -> "\\t"
    [] OTHER -> ch

Quote(s) == "\"" \o Join([i \in 1..Len(s) |-> EscapeChar(s[i])]) \o "\""

\* a number kept in hundredths, printed as JavaScript prints it
NumberToString(v) ==
  LET a == IF v.c < 0 THEN 0 - v.c ELSE v.c
      whole == Join(Digits(a \div 100))
      frac == a % 100
      fracStr == IF frac = 0 THEN ""
                 ELSE IF frac % 10 = 0 THEN "." \o Join(Digits(frac \div 10))
                 ELSE "." \o Join(Digits(frac \div 10)) \o Join(Digits(frac % 10))
  IN (IF v.c < 0 THEN "-" ELSE "") \o whole \o fracStr

\* the order in which the keys of an upstream object were inserted
KeyOrder == <<"id", "title", "price", "userId", "date", "products",
              "email", "username">>

KeysOf(f) == SelectSeq(KeyOrder, LAMBDA k : k \in DOMAIN f /\ f[k] # Undefined)

RECURSIVE Spaces(_)
Spaces(n) == IF n = 0 THEN "" ELSE " " \o Spaces(n - 1)

RECURSIVE JoinLines(_, _)
JoinLines(parts, indent) ==
  IF Len(parts) = 1 THEN Head(parts)
  ELSE Head(parts) \o ",\n" \o Spaces(indent) \o JoinLines(Tail(parts), indent)

RECURSIVE Stringify(_, _)
Stringify(v, indent) ==
  CASE v.t \in {"null", "undefined"} -> "null"
    [] v.t = "number" -> NumberToString(v)
    [] v.t = "string" -> Quote(v.s)
    [] v.t = "array" ->
         IF v.a = <<>> THEN "[]"
         ELSE "[\n" \o Spaces(indent + 2)
                \o JoinLines([i \in 1..Len(v.a) |-> Stringify(v.a[i], indent + 2)],
                             indent + 2)
                \o "\n" \o Spaces(indent) \o "]"
    [] v.t = "object" ->
         LET ks == KeysOf(v.f)
         IN IF ks = <<>> THEN "{}"
            ELSE "{\n" \o Spaces(indent + 2)
                   \o JoinLines([i \in 1..Len(ks) |->
                                   "\"" \o ks[i] \o "\": "
                                     \o Stringify(v.f[ks[i]], indent + 2)],
                                indent + 2)
                   \o "\n" \o Spaces(indent) \o "}"

JSONstringify(result) == Stringify(result, 0)

---------------------------------------------------------------------------
(* The axios instance: rate-limit interceptor, transport, error handling *)

RATE_LIMIT == 100
RATE_LIMIT_WINDOW == 60000

\* an interceptor that tests the limit before it counts the request
Interceptor_testsBeforeCounting(count) ==
  [requestCount |-> count + 1,
   rejected |-> count > RATE_LIMIT,
   scheduled |-> ~(count > RATE_LIMIT)]

\* the request interceptor run with the counter at count: the counter after
\* it, whether it threw, and whether it scheduled the delayed decrement
Interceptor(count) ==
  [requestCount |-> count + 1,
   rejected |-> count + 1 > RATE_LIMIT,
   scheduled |-> ~(count + 1 > RATE_LIMIT)]

RateLimitError ==
  JSError("Rate limit exceeded. Maximum " \o ToString(RATE_LIMIT)
            \o " requests per minute allowed.")

\* what the upstream and the network can do to a request that was sent
Outcomes == {"ok", "timeout", "http500"}

\* the AxiosError the axios instance rejects with
TransportError(outcome) ==
  CASE outcome = "timeout" ->
         AxiosError("timeout of 10000ms exceeded", Undefined,
                    Str(<<"ECONNABORTED">>))
    [] outcome = "http500" ->
         AxiosError("Request failed with status code 500", IntV(500),
                    Str(<<"ERR_BAD_RESPONSE">>))

handleApiError(error) ==
  IF error.isAxiosError
    THEN [instanceofError |-> FALSE, isAxiosError |-> FALSE,
          message |-> IF error.message # "" THEN error.message
                      ELSE "API request failed",
          status |-> error.status, code |-> error.code]
  ELSE IF error.instanceofError
    THEN [instanceofError |-> FALSE, isAxiosError |-> FALSE,
          message |-> error.message,
          status |-> Undefined, code |-> Undefined]
  ELSE [instanceofError |-> FALSE, isAxiosError |-> FALSE,
        message |-> "Unknown error occurred",
        status |-> Undefined, code |-> Undefined]

\* a wrapper that calls the axios instance a second time when the first
\* call fails
Wrapper_retriesOnce(rejected, outcome, data) ==
  IF rejected
    THEN [threw |-> TRUE, error |-> handleApiError(RateLimitError),
          attempts |-> 2]
  ELSE IF outcome = "ok"
    THEN [threw |-> FALSE, value |-> data, attempts |-> 1]
  ELSE [threw |-> TRUE, error |-> handleApiError(TransportError(outcome)),
        attempts |-> 2]

\* try { response = await api.<method>(...); return response.data }
\* catch (error) { throw handleApiError(error) }
\* attempts counts the calls of api.<method>
Wrapper(rejected, outcome, data) ==
  IF rejected
    THEN [threw |-> TRUE, error |-> handleApiError(RateLimitError),
          attempts |-> 1]
  ELSE IF outcome = "ok"
    THEN [threw |-> FALSE, value |-> data, attempts |-> 1]
  ELSE [threw |-> TRUE, error |-> handleApiError(TransportError(outcome)),
        attempts |-> 1]

\* a catch block that handles Error instances only and rethrows the rest
Catch_rethrowsNonError(error) ==
  IF error.instanceofError
    THEN [escaped |-> FALSE,
          response |-> [content |-> <<[type |-> "text",
                                       text |-> "Error: " \o error.message]>>,
                        isError |-> TRUE]]
    ELSE [escaped |-> TRUE, response |-> Undefined]

\* the catch block of the call-tool handler
Catch(error) ==
  LET errorMessage == IF error.instanceofError THEN error.message
                      ELSE "Unknown error occurred"
  IN [escaped |-> FALSE,
      response |-> [content |-> <<[type |-> "text",
                                   text |-> "Error: " \o errorMessage]>>,
                    isError |-> TRUE]]

\* a handler that marks its success envelope with isError: false
Success_withIsError(result) ==
  [escaped |-> FALSE,
   response |-> [content |-> <<[type |-> "text",
                                text |-> JSONstringify(result)]>>,
                 isError |-> FALSE]]

\* return { content: [{ type: 'text', text: JSON.stringify(result, null, 2) }] }
Success(result) ==
  [escaped |-> FALSE,
   response |-> [content |-> <<[type |-> "text",
                                text |-> JSONstringify(result)]>>]]

---------------------------------------------------------------------------
(* Argument bags the host sends *)

\* the bag holding the keys of f whose value is not undefined (a JSON
\* object cannot hold undefined)
Bag(f) == Obj([k \in {x \in DOMAIN f : f[x] # Undefined} |-> f[k]])

sHttp == <<"h", "t", "t", "p", ":", "/", "/", "a", ".", "b", "/", "i">>
sHttps == <<"h", "t", "t", "p", "s", ":", "/", "/", "a", ".", "b">>
sFtp == <<"f", "t", "p", ":", "/", "/", "a", ".", "b", "/", "i">>
sNoUrl == <<"n", "o", "u", "r", "l">>
sAsc == <<"a", "s", "c">>
sDesc == <<"d", "e", "s", "c">>
sDate == <<"2", "0", "2", "4", "-", "0", "1", "-", "0", "1">>

IdVals == {Undefined, IntV(1), IntV(12), IntV(0), IntV(-1), Num(150),
           Str(<<"1">>), Null}
LimitVals == {Undefined, IntV(5), IntV(0), IntV(-3), Num(250), Str(<<"5">>), Null}
SortVals == {Undefined, Str(sAsc), Str(sDesc), Str(<<"A", "S", "C">>),
             Str(<<"D", "e", "s", "c">>), Str(<<"a", "s", "c", " ">>),
             Str(<<>>), IntV(1), Null}
CategoryVals == {Undefined, Str(<<>>), Str(<<" ">>), Str(<<"t", "v">>),
                 Str(<<"e", "l", "/", "a">>), Str(<<"a", "?", "b", "#", "c">>),
                 Str(<<" ", "t", "v", " ">>), IntV(1)}

TitleVals == {Undefined, Str(<<>>), Str(<<"T">>), IntV(1)}
PriceVals == {Undefined, Num(1999), IntV(1), IntV(0), IntV(-5), Str(<<"5">>)}
DescriptionVals == {Undefined, Str(<<>>), Str(<<"D">>)}
ImageVals == {Undefined, Str(<<" ">>), Str(sHttp), Str(sHttps), Str(sFtp),
              Str(sNoUrl)}
ExtraVals == {Undefined, IntV(9)}

Item(productId, quantity) ==
  Bag([productId |-> productId, quantity |-> quantity])

ProductsVals ==
  {Undefined, Arr(<<>>), Str(<<"x">>),
   Arr(<<Item(IntV(1), IntV(2))>>),
   Arr(<<Item(IntV(1), IntV(2)), Item(IntV(3), IntV(1))>>),
   Arr(<<Item(IntV(1), IntV(0))>>),
   Arr(<<Item(IntV(1), IntV(2)), Item(IntV(3), IntV(-1))>>),
   Arr(<<Item(IntV(1), Num(150))>>),
   Arr(<<Item(IntV(0), IntV(1))>>),
   Arr(<<Item(Num(250), IntV(1))>>),
   Arr(<<Item(Str(<<"1">>), IntV(1))>>),
   Arr(<<Item(IntV(1), Undefined)>>),
   Arr(<<Null>>)}

UserValid ==
  [email |-> Str(<<"a", "@", "b", ".", "c">>), username |-> Str(<<"u">>),
   password |-> Str(<<"p">>), firstname |-> Str(<<"f">>),
   lastname |-> Str(<<"l">>), city |-> Str(<<"c">>), street |-> Str(<<"s">>),
   number |-> IntV(7), zipcode |-> Str(<<"z">>), lat |-> Str(<<"1">>),
   long |-> Str(<<"2">>), phone |-> Str(<<"5">>)]

UserAltVals == {Str(<<>>), Null, IntV(3)}

Restrict(f, ks) == [k \in ks |-> f[k]]

AddUserBags ==
  {Obj(Restrict(UserValid, UserFields \ m)) :
     m \in {x \in SUBSET UserFields : Cardinality(x) <= MaxMissing}}
  \cup {Obj([UserValid EXCEPT ![k] = v]) : k \in UserFields, v \in UserAltVals}

UpdateUserBags ==
  {Bag([id |-> id] @@ Restrict(UserValid, ks)) :
     id \in {IntV(1), IntV(0), Undefined},
     ks \in {x \in SUBSET UserFields : Cardinality(x) <= MaxSupplied}
              \cup {UserFields}}
  \cup {Obj([id |-> IntV(1)] @@ [x \in {k} |-> v]) :
          k \in UserFields, v \in UserAltVals}

ArgBags(name) ==
  {Undefined} \cup
  CASE name \in {"fakestore_get_products", "fakestore_get_carts",
                 "fakestore_get_users"} ->
         {Bag([limit |-> l, sort |-> s]) : l \in LimitVals, s \in SortVals}
    [] name \in {"fakestore_get_product", "fakestore_delete_product",
                 "fakestore_get_cart", "fakestore_delete_cart",
                 "fakestore_get_user", "fakestore_delete_user"} ->
         {Bag([id |-> i]) : i \in IdVals}
    [] name = "fakestore_get_user_carts" ->
         {Bag([userId |-> i]) : i \in IdVals}
    [] name = "fakestore_get_products_by_category" ->
         {Bag([category |-> c]) : c \in CategoryVals}
    [] name = "fakestore_add_product" ->
         {Bag([title |-> t, price |-> p, description |-> d, image |-> i,
               category |-> c, id |-> x]) :
            t \in TitleVals, p \in PriceVals, d \in DescriptionVals,
            i \in ImageVals, c \in {Undefined, Str(<<>>), Str(<<"t", "v">>)},
            x \in ExtraVals}
    [] name = "fakestore_update_product" ->
         {Bag([id |-> x, title |-> t, price |-> p, description |-> d,
               image |-> i, category |-> c]) :
            x \in {IntV(1), IntV(0), Undefined},
            t \in {Undefined, Str(<<>>), Str(<<"T">>)},
            p \in {Undefined, Num(1999), IntV(0), IntV(-5)},
            d \in {Undefined, Str(<<"D">>)},
            i \in {Undefined, Str(sHttp), Str(sFtp), Str(sNoUrl)},
            c \in {Undefined, Str(<<"t", "v">>)}}
    [] name = "fakestore_add_cart" ->
         {Bag([userId |-> u, date |-> d, products |-> ps]) :
            u \in {Undefined, IntV(1), IntV(0), Num(150)},
            d \in {Undefined, Str(<<>>), Str(sDate)},
            ps \in ProductsVals}
    [] name = "fakestore_update_cart" ->
         {Bag([id |-> x, userId |-> u, date |-> d, products |-> ps]) :
            x \in {IntV(1), IntV(0)},
            u \in {Undefined, IntV(2), IntV(0), Num(150)},
            d \in {Undefined, Str(<<>>), Str(sDate)},
            ps \in ProductsVals}
    [] name = "fakestore_add_user" -> AddUserBags
    [] name = "fakestore_update_user" -> UpdateUserBags
    [] OTHER -> {Obj(EmptyObject), Bag([id |-> IntV(1)])}

UnknownNames == {"", "fakestore_get_orders", "get_products"}

ToolNames == CatalogNames \cup UnknownNames

\* what the upstream answers to a request that succeeds
UpstreamData ==
  {Obj([id |-> IntV(1), title |-> Str(<<"T">>)]),
   Arr(<<>>),
   Arr(<<Obj([id |-> IntV(2), price |-> Num(10995)])>>),
   Arr(<<Str(<<"t", "v">>), Str(<<"a", "\"">>)>>),
   Null}

\* what happens to a request that was sent; NoReply when none was sent
Reply(outcome, data) == [outcome |-> outcome, data |-> data]
NoReply == Reply("none", Undefined)
Replies == {Reply("ok", d) : d \in UpstreamData}
             \cup {Reply(o, Undefined) : o \in Outcomes \ {"ok"}}

---------------------------------------------------------------------------
(* State machine *)

NoCall == [name |-> "", args |-> Undefined, issued |-> <<>>,
           attempts |-> 0, sent |-> FALSE, scheduled |-> FALSE, outcome |-> "none",
           upstream |-> Undefined,
           threw |-> FALSE, failure |-> Undefined,
           escaped |-> FALSE, response |-> Undefined]

\* 0 requests so far, or RATE_LIMIT - 1 requests sent at time 0 whose
\* decrements are all pending
InitCounts == {0, RATE_LIMIT - 1}

Init ==
  /\ requestCount \in InitCounts
  /\ timers = IF requestCount = 0 THEN EmptyBag
              ELSE [d \in {RATE_LIMIT_WINDOW} |-> requestCount]
  /\ now = 0
  /\ phase = "idle"
  /\ call = NoCall
  /\ calls = 0
  /\ inflight = EmptyBag

\* What one invocation did, for the properties to read: r is what the
\* resource function threw or the request it made, ic the interceptor's
\* run, result what the awaited call threw or returned, and h the handler's
\* return (or the exception that escapes it).
CallRecord(name, args, reply, r, ic, result, h) ==
  [name |-> name, args |-> args,
   issued |-> IF r.threw THEN <<>>
              ELSE <<[method |-> r.method, url |-> r.url,
                      params |-> r.params, data |-> r.data]>>,
   attempts |-> IF r.threw THEN 0 ELSE result.attempts,
   sent |-> ~r.threw /\ ~ic.rejected,
   scheduled |-> ~r.threw /\ ic.scheduled,
   outcome |-> reply.outcome,
   upstream |-> reply.data,
   threw |-> result.threw,
   failure |-> IF r.threw THEN r.error
               ELSE IF ic.rejected THEN RateLimitError
               ELSE IF reply.outcome # "ok"
                 THEN TransportError(reply.outcome)
               ELSE Undefined,
   escaped |-> h.escaped,
   response |-> h.response]

\* a handler whose every invocation runs the interceptor, before validation
Handle_countsEveryCall(name, args, reply, r, ic, result, h) ==
  /\ phase = "idle"
  /\ IF ~r.threw /\ ~ic.rejected THEN reply \in Replies ELSE reply = NoReply
  /\ requestCount' = ic.requestCount
  /\ timers' = IF ic.scheduled
                 THEN timers (+) SetToBag({now + RATE_LIMIT_WINDOW})
                 ELSE timers
  /\ call' = CallRecord(name, args, reply, r, ic, result, h)
  /\ phase' = "responded"
  /\ calls' = calls + 1
  /\ UNCHANGED <<now, inflight>>

\* The handler from the request to its return, when nothing else runs
\* while it awaits the upstream.
Handle(name, args, reply, r, ic, result, h) ==
  /\ phase = "idle"
  /\ IF ~r.threw /\ ~ic.rejected THEN reply \in Replies ELSE reply = NoReply
  /\ requestCount' = IF r.threw THEN requestCount ELSE ic.requestCount
  /\ timers' = IF ~r.threw /\ ic.scheduled
                 THEN timers (+) SetToBag({now + RATE_LIMIT_WINDOW})
                 ELSE timers
  /\ call' = CallRecord(name, args, reply, r, ic, result, h)
  /\ phase' = "responded"
  /\ calls' = calls + 1
  /\ UNCHANGED <<now, inflight>>

\* try { result = await <resource function>(args); return {content} }
\* catch (error) { return {content, isError: true} }
TryCatch(name, args, reply, r, ic, result) ==
  Handle(name, args, reply, r, ic, result,
         IF result.threw THEN Catch(result.error) ELSE Success(result.value))

\* the resource function, and the wrapper it awaits when it made a request
Await(name, args, reply, r, ic) ==
  TryCatch(name, args, reply, r, ic,
           IF r.threw THEN r
           ELSE Wrapper(ic.rejected, reply.outcome, reply.data))

\* One invocation of the call-tool handler, from the request to the
\* returned response: route, validate, run the interceptor, await the
\* upstream (reply), catch.
CallTool(name, args, reply) ==
  Await(name, args, reply, Route(name, args), Interceptor(requestCount))

\* the host receives the response
Deliver ==
  /\ phase = "responded"
  /\ phase' = "idle"
  /\ call' = NoCall
  /\ UNCHANGED <<requestCount, timers, now, calls, inflight>>

\* setTimeout callback: if (requestCount > 0) requestCount--
Fire ==
  \E d \in BagToSet(timers) :
    /\ d <= now
    /\ timers' = timers (-) SetToBag({d})
    /\ requestCount' = IF requestCount > 0 THEN requestCount - 1
                       ELSE requestCount
    /\ UNCHANGED <<now, phase, call, calls, inflight>>

\* a rate-limit window of time passes
Tick ==
  /\ now < MaxWindows * RATE_LIMIT_WINDOW
  /\ now' = now + RATE_LIMIT_WINDOW
  /\ UNCHANGED <<requestCount, timers, phase, call, calls, inflight>>

Invoke ==
  /\ calls < MaxCalls
  /\ phase = "idle"
  /\ \E name \in ToolNames : \E args \in ArgBags(name) :
       \E reply \in Replies \cup {NoReply} :
         CallTool(name, args, reply)

Next == Invoke \/ Deliver

Spec == Init /\ [][Next]_vars

\* The rate limiter over time: few kinds of invocation, time passes and the
\* delayed decrements run.
RateCalls ==
  {<<"fakestore_get_categories", Undefined>>,
   <<"fakestore_get_product", Bag([id |-> IntV(1)])>>,
   <<"fakestore_get_product", Bag([id |-> IntV(0)])>>,
   <<"fakestore_get_orders", Obj(EmptyObject)>>}

InvokeRate ==
  /\ calls < MaxRateCalls
  /\ phase = "idle"
  /\ \E c \in RateCalls :
       \E reply \in {Reply("ok", Arr(<<>>)), Reply("timeout", Undefined),
                      NoReply} :
         CallTool(c[1], c[2], reply)

NextRate == InvokeRate \/ Deliver \/ Fire \/ Tick

SpecRate == Init /\ [][NextRate]_vars

\* Overlapping invocations: the handler is an async function, so while one
\* invocation awaits its upstream request other invocations and the timer
\* callbacks run.

\* an invocation up to its await: the resource function validated and
\* called a wrapper and the interceptor ran on the request
Begin(name, args, r, ic) ==
  /\ ~r.threw
  /\ requestCount' = ic.requestCount
  /\ timers' = IF ic.scheduled
                 THEN timers (+) SetToBag({now + RATE_LIMIT_WINDOW})
                 ELSE timers
  /\ inflight' = inflight (+) SetToBag({[name |-> name, args |-> args,
                                         r |-> r,
                                         ic |-> [rejected |-> ic.rejected,
                                                 scheduled |-> ic.scheduled]]})
  /\ calls' = calls + 1
  /\ UNCHANGED <<now, phase, call>>

Start ==
  /\ calls < MaxRateCalls
  /\ BagCardinality(inflight) < MaxInflight
  /\ \E c \in RateCalls :
       Begin(c[1], c[2], Route(c[1], c[2]), Interceptor(requestCount))

\* the awaited wrapper call of invocation f settles and the handler returns
Settle(f, reply, result) ==
  /\ inflight' = inflight (-) SetToBag({f})
  /\ call' = CallRecord(f.name, f.args, reply, f.r, f.ic, result,
                        IF result.threw THEN Catch(result.error)
                        ELSE Success(result.value))
  /\ phase' = "responded"
  /\ UNCHANGED <<requestCount, timers, now, calls>>

Finish ==
  /\ phase = "idle"
  /\ \E f \in BagToSet(inflight) :
       \E reply \in (IF f.ic.rejected THEN {NoReply}
                     ELSE {Reply("ok", Arr(<<>>)), Reply("timeout", Undefined)}) :
         Settle(f, reply, Wrapper(f.ic.rejected, reply.outcome, reply.data))

NextOverlap == Start \/ Finish \/ Deliver \/ Fire \/ Tick

SpecOverlap == Init /\ [][NextOverlap]_vars

---------------------------------------------------------------------------
(* Reading a response *)

IsEnvelope(resp) ==
  /\ resp # Undefined
  /\ "content" \in DOMAIN resp
  /\ Len(resp.content) = 1
  /\ resp.content[1].type = "text"

IsErrorEnvelope(resp) ==
  IsEnvelope(resp) /\ "isError" \in DOMAIN resp /\ resp.isError = TRUE

ResponseText(resp) == resp.content[1].text

Responded == phase = "responded"

\* the invocation failed: something was thrown in the chain
Failed == call.failure # Undefined

---------------------------------------------------------------------------
(* Properties *)

\* C1: every tool invocation, whatever the name, the argument bag and the
\* upstream outcome, returns a response envelope and lets no exception
\* escape the handler; when the invocation failed the envelope has
\* isError = true and a non-empty text.
C1_AlwaysEnvelope ==
  Responded =>
    /\ ~call.escaped
    /\ IsEnvelope(call.response)
    /\ Failed => /\ IsErrorEnvelope(call.response)
                 /\ ResponseText(call.response) # ""

\* C1 witness: an upstream 500 answer came back as an error envelope
C1_Witness ==
  /\ Responded
  /\ call.outcome = "http500"
  /\ IsErrorEnvelope(call.response)

\* C2: when a failure is raised anywhere in the chain (validation in a
\* resource function, or a transport failure normalized by the HTTP
\* wrapper), the error envelope carries the message of that failure.
C2_EnvelopeCarriesMessage ==
  (Responded /\ Failed) =>
    /\ IsErrorEnvelope(call.response)
    /\ ResponseText(call.response) = "Error: " \o call.failure.message

\* a number that is not a positive integer
BadNumber(v) == v.t = "number" /\ (~IsInteger(v) \/ v.c <= 0)

\* the bag holds an id, limit or quantity argument that is a non-integer,
\* zero or negative number
HasBadNumber(args) ==
  /\ args # Undefined
  /\ \/ \E k \in {"id", "userId", "limit"} : BadNumber(Get(args, k))
     \/ /\ IsArray(Get(args, "products"))
        /\ \E i \in 1..Len(Get(args, "products").a) :
             \E k \in {"productId", "quantity"} :
               BadNumber(ItemField(Get(args, "products").a[i], k))

\* C3: for every tool, an id, limit or quantity argument (productId and
\* quantity of a cart item included) that is a non-integer, zero or negative
\* value makes the invocation fail with no HTTP request issued.
C3_BadNumberNoRequest ==
  (Responded /\ call.name \in CatalogNames /\ HasBadNumber(call.args)) =>
    /\ call.issued = <<>>
    /\ Failed
    /\ IsErrorEnvelope(call.response)

\* C4: a tool name outside the catalog gets an error envelope whose text is
\* "Error: " followed by the message `Unknown tool: <name>`; no request is
\* issued, the rate counter and its timers are unchanged, nothing escapes.
C4_UnknownTool ==
  [][(phase = "idle" /\ phase' = "responded"
        /\ call'.name \notin CatalogNames) =>
       /\ ~call'.escaped
       /\ IsErrorEnvelope(call'.response)
       /\ call'.failure # Undefined
       /\ call'.failure.message = "Unknown tool: " \o call'.name
       /\ ResponseText(call'.response) = "Error: Unknown tool: " \o call'.name
       /\ call'.issued = <<>>
       /\ requestCount' = requestCount
       /\ timers' = timers]_vars

\* C4 witness: the unknown name fakestore_get_orders was answered
C4_Witness ==
  /\ Responded
  /\ call.name = "fakestore_get_orders"
  /\ IsErrorEnvelope(call.response)

\* C5: every request that reaches the rate-limit interceptor and increments
\* the counter also schedules exactly one decrement RATE_LIMIT_WINDOW later.
C5_IncrementSchedulesDecrement ==
  [][requestCount' = requestCount + 1 =>
       timers' = timers (+) SetToBag({now + RATE_LIMIT_WINDOW})]_vars

\* a products list that is a non-empty array whose items all have a
\* productId and a quantity that are numbers > 0
ValidProducts(products) ==
  /\ IsArray(products)
  /\ Len(products.a) > 0
  /\ \A i \in 1..Len(products.a) : \A k \in {"productId", "quantity"} :
       /\ ItemField(products.a[i], k).t = "number"
       /\ ItemField(products.a[i], k).c > 0

\* C6: every cart body a cart write issues (addCart's POST /carts, and
\* updateCart's PUT /carts/{id} when products is supplied) has a non-empty
\* products list whose items all have productId > 0 and quantity > 0.
C6_CartBodyValid ==
  (/\ Responded
   /\ call.name \in {"fakestore_add_cart", "fakestore_update_cart"}
   /\ call.issued # <<>>
   /\ "products" \in DOMAIN call.issued[1].data.f) =>
    ValidProducts(call.issued[1].data.f.products)

CreateTools == {"fakestore_add_product", "fakestore_add_cart",
                "fakestore_add_user"}

\* a parameter the tool's catalog schema lists under required is missing
MissingRequired(name, args) ==
  \/ args = Undefined
  \/ \E k \in Descriptor(name).required : Get(args, k) = Undefined

\* C7: a create tool invoked without one of the parameters its schema
\* requires fails and issues no POST.
C7_CreateNeedsRequired ==
  (/\ Responded
   /\ call.name \in CreateTools
   /\ MissingRequired(call.name, call.args)) =>
    /\ call.issued = <<>>
    /\ Failed
    /\ IsErrorEnvelope(call.response)

\* an update whose supplied field has one of the invalid values the claim
\* names
InvalidUpdate(name, args) ==
  /\ args # Undefined
  /\ \/ /\ name = "fakestore_update_product"
        /\ \/ Get(args, "price").t = "number" /\ Get(args, "price").c <= 0
           \/ Get(args, "title") = Str(<<>>)
     \/ /\ name = "fakestore_update_user"
        /\ \/ Get(args, "email") = Str(<<>>)
           \/ Get(args, "username") = Str(<<>>)
     \/ /\ name = "fakestore_update_cart"
        /\ Get(args, "date") = Str(<<>>)

\* C8: an update whose supplied field is invalid (updateProduct with
\* price <= 0 or an empty title, updateUser with an empty email or username,
\* updateCart with an empty date) fails and issues no PUT.
C8_UpdateValidatesSupplied ==
  (Responded /\ InvalidUpdate(call.name, call.args)) =>
    /\ call.issued = <<>>
    /\ Failed
    /\ IsErrorEnvelope(call.response)

ValidText(v) == v.t = "string" /\ Trim(v.s) # <<>>

IsHttpUrl(v) ==
  /\ ValidText(v)
  /\ URLParse(v.s).ok
  /\ URLParse(v.s).protocol \in {<<"h", "t", "t", "p", ":">>,
                                 <<"h", "t", "t", "p", "s", ":">>}

\* C9: addProduct with a price <= 0 fails with a validation error and
\* issues no request; with a positive price and a valid title, description,
\* image URL and category it issues exactly one POST /products whose body
\* holds exactly title, price, description, image and category as supplied.
C9_AddProduct ==
  (Responded /\ call.name = "fakestore_add_product"
     /\ call.args # Undefined) =>
    LET title == Get(call.args, "title")
        price == Get(call.args, "price")
        description == Get(call.args, "description")
        image == Get(call.args, "image")
        category == Get(call.args, "category")
    IN /\ (price.t = "number" /\ price.c <= 0) =>
            /\ call.issued = <<>>
            /\ ~call.sent
            /\ Failed
            /\ call.failure.instanceofError
            /\ IsErrorEnvelope(call.response)
            /\ ValidText(title) =>
                 call.failure.message = "Price must be a positive number"
       /\ (/\ price.t = "number" /\ price.c > 0
           /\ ValidText(title) /\ ValidText(description)
           /\ IsHttpUrl(image) /\ ValidText(category)) =>
            call.issued =
              <<[method |-> "POST", url |-> <<"/products">>,
                 params |-> Undefined,
                 data |-> Obj([title |-> title, price |-> price,
                               description |-> description,
                               image |-> image, category |-> category])]>>

\* C9 witness: price 19.99 with valid strings and an extra key id in the
\* bag was posted
C9_Witness ==
  /\ Responded
  /\ call.name = "fakestore_add_product"
  /\ call.args # Undefined
  /\ Get(call.args, "price") = Num(1999)
  /\ Get(call.args, "id") # Undefined
  /\ call.issued # <<>>

\* body holds exactly the supplied fields of args, in nested form
IsUpdateUserBody(body, args) ==
  LET sup(k) == Get(args, k) # Undefined
      flat == {"email", "username", "password", "phone"}
      street == {"city", "street", "number", "zipcode"}
  IN /\ body.t = "object"
     /\ DOMAIN body.f =
          {k \in flat : sup(k)}
            \cup (IF sup("firstname") \/ sup("lastname")
                    THEN {"name"} ELSE {})
            \cup (IF \E k \in street \cup {"lat", "long"} : sup(k)
                    THEN {"address"} ELSE {})
     /\ \A k \in flat : sup(k) => body.f[k] = Get(args, k)
     /\ "name" \in DOMAIN body.f =>
          /\ body.f.name.t = "object"
          /\ DOMAIN body.f.name.f = {k \in {"firstname", "lastname"} : sup(k)}
          /\ \A k \in DOMAIN body.f.name.f : body.f.name.f[k] = Get(args, k)
     /\ "address" \in DOMAIN body.f =>
          /\ body.f.address.t = "object"
          /\ DOMAIN body.f.address.f =
               {k \in street : sup(k)}
                 \cup (IF sup("lat") \/ sup("long")
                         THEN {"geolocation"} ELSE {})
          /\ \A k \in street : sup(k) => body.f.address.f[k] = Get(args, k)
          /\ "geolocation" \in DOMAIN body.f.address.f =>
               /\ body.f.address.f.geolocation.t = "object"
               /\ DOMAIN body.f.address.f.geolocation.f =
                    {k \in {"lat", "long"} : sup(k)}
               /\ \A k \in DOMAIN body.f.address.f.geolocation.f :
                    body.f.address.f.geolocation.f[k] = Get(args, k)

\* C10: the body of updateUser's PUT holds exactly the supplied fields in
\* nested form: email/username/password/phone iff supplied, name iff
\* firstname or lastname is supplied (holding only those), address iff one
\* of city/street/number/zipcode/lat/long is supplied, address.geolocation
\* iff lat or long is supplied, never the id; only firstname supplied gives
\* exactly {name: {firstname}}.
C10_UpdateUserBody ==
  (Responded /\ call.name = "fakestore_update_user"
     /\ call.issued # <<>>) =>
    /\ Len(call.issued) = 1
    /\ call.issued[1].method = "PUT"
    /\ IsUpdateUserBody(call.issued[1].data, call.args)
    /\ "id" \notin DOMAIN call.issued[1].data.f
    /\ DOMAIN call.args.f = {"id", "firstname"} =>
         call.issued[1].data =
           Obj([name |-> Obj([firstname |-> call.args.f.firstname])])

\* C10 witness: an update supplying only firstname was put
C10_Witness ==
  /\ Responded
  /\ call.name = "fakestore_update_user"
  /\ call.args # Undefined
  /\ DOMAIN call.args.f = {"id", "firstname"}
  /\ call.issued # <<>>

\* the characters encodeURIComponent escapes in the model's strings
EscapedChars == {" ", "#", "%", "&", "/", ":", "?", "@", "\t", "\n", "\\"}

\* the string a percent-encoded string s stands for
RECURSIVE PercentDecode(_)
PercentDecode(s) ==
  IF s = <<>> THEN <<>>
  ELSE IF Head(s) = "%" /\ Len(s) >= 3
    THEN <<CHOOSE ch \in EscapedChars : HexCode(ch) = <<s[2], s[3]>> >>
           \o PercentDecode(SubSeq(s, 4, Len(s)))
  ELSE <<Head(s)>> \o PercentDecode(Tail(s))

\* the request is one GET whose path is /products/category/<s>, where <s>
\* holds no '/', '?' or '#' and is the percent-encoding of category
IsCategoryRequest(issued, category) ==
  /\ Len(issued) = 1
  /\ issued[1].method = "GET"
  /\ issued[1].params = Undefined
  /\ Head(issued[1].url) = "/products/category/"
  /\ \A i \in 2..Len(issued[1].url) :
       /\ issued[1].url[i] \notin {"/", "?", "#"}
       /\ issued[1].url[i] \in Unreserved \cup {"%", "A", "B", "C", "D", "E", "F"}
  /\ PercentDecode(Tail(issued[1].url)) = category

\* C11 as stated: the request path of getProductsByCategory is
\* /products/category/<s> with <s> the percent-encoding of the category, so
\* a '/', '?' or '#' in the category adds no path segment, query or fragment.
C11_PathEncodesCategory ==
  (/\ Responded
   /\ call.name = "fakestore_get_products_by_category"
   /\ call.issued # <<>>) =>
    IsCategoryRequest(call.issued, Get(call.args, "category").s)

\* C11 amended: <s> is the percent-encoding of the category with its leading
\* and trailing whitespace removed; a '/', '?' or '#' in the category adds
\* no path segment, query or fragment.
C11_PathEncodesTrimmedCategory ==
  (/\ Responded
   /\ call.name = "fakestore_get_products_by_category"
   /\ call.issued # <<>>) =>
    IsCategoryRequest(call.issued, Trim(Get(call.args, "category").s))

\* C11 witness: the category "el/a" was requested with its slash encoded
C11_Witness ==
  /\ Responded
  /\ call.name = "fakestore_get_products_by_category"
  /\ call.args # Undefined
  /\ Get(call.args, "category") = Str(<<"e", "l", "/", "a">>)
  /\ call.issued # <<>>
  /\ call.issued[1].url = <<"/products/category/", "e", "l", "%", "2", "F", "a">>


\* C12: no retries: a tool invocation issues at most one HTTP request (one
\* wrapper call, one call of the axios instance, one run of the
\* interceptor), and when that request fails the invocation ends with the
\* error envelope without another request.
C12_NoRetry ==
  [][(phase = "idle" /\ phase' = "responded") =>
       /\ Len(call'.issued) <= 1
       /\ call'.attempts = Len(call'.issued)
       /\ requestCount' - requestCount = call'.attempts
       /\ call'.outcome \in Outcomes \ {"ok"} =>
            /\ call'.attempts = 1
            /\ call'.threw
            /\ IsErrorEnvelope(call'.response)]_vars

\* C12 witness: a request that timed out was answered with an error envelope
\* after one attempt
C12_Witness ==
  /\ Responded
  /\ call.outcome = "timeout"
  /\ call.attempts = 1
  /\ IsErrorEnvelope(call.response)


\* the handler reached its fall-through  throw new Error(`Unknown tool: ...`)
FellThrough == Failed /\ call.failure = JSError("Unknown tool: " \o call.name)

\* C13: the list-tools response is the combined catalog of exactly 18
\* descriptors (7 product, 6 cart, 5 user) with pairwise distinct names, and
\* the call-tool handler routes a name to a resource function if and only
\* if the name is in the catalog.
C13_CatalogIsRouted ==
  /\ Len(productTools) = 7
  /\ Len(cartTools) = 6
  /\ Len(userTools) = 5
  /\ Len(ListTools) = 18
  /\ \A i, j \in 1..Len(ListTools) :
       ListTools[i].name = ListTools[j].name => i = j
  /\ Responded => (call.name \in CatalogNames <=> ~FellThrough)

\* C13 witness: the last name of the catalog was routed to deleteUser
C13_Witness ==
  /\ Responded
  /\ call.name = ListTools[Len(ListTools)].name
  /\ call.issued = <<[method |-> "DELETE", url |-> <<"/users/", "1">>,
                      params |-> Undefined, data |-> Undefined]>>


\* the operation of a tool: its method, the fixed part of its path, and the
\* argument that fills the path's last segment ("" when there is none)
Op(method, path, arg) == [method |-> method, path |-> path, arg |-> arg]

Operation(name) ==
  CASE name = "fakestore_get_products" -> Op("GET", "/products", "")
    [] name = "fakestore_get_product" -> Op("GET", "/products/", "id")
    [] name = "fakestore_get_categories" ->
         Op("GET", "/products/categories", "")
    [] name = "fakestore_get_products_by_category" ->
         Op("GET", "/products/category/", "category")
    [] name = "fakestore_add_product" -> Op("POST", "/products", "")
    [] name = "fakestore_update_product" -> Op("PUT", "/products/", "id")
    [] name = "fakestore_delete_product" -> Op("DELETE", "/products/", "id")
    [] name = "fakestore_get_carts" -> Op("GET", "/carts", "")
    [] name = "fakestore_get_cart" -> Op("GET", "/carts/", "id")
    [] name = "fakestore_get_user_carts" -> Op("GET", "/carts/user/", "userId")
    [] name = "fakestore_add_cart" -> Op("POST", "/carts", "")
    [] name = "fakestore_update_cart" -> Op("PUT", "/carts/", "id")
    [] name = "fakestore_delete_cart" -> Op("DELETE", "/carts/", "id")
    [] name = "fakestore_get_users" -> Op("GET", "/users", "")
    [] name = "fakestore_get_user" -> Op("GET", "/users/", "id")
    [] name = "fakestore_add_user" -> Op("POST", "/users", "")
    [] name = "fakestore_update_user" -> Op("PUT", "/users/", "id")
    [] name = "fakestore_delete_user" -> Op("DELETE", "/users/", "id")
    [] OTHER -> Op("", "", "")

\* the number a non-empty string of decimal digits denotes, -1 otherwise
RECURSIVE DecimalValue(_)
DecimalValue(s) ==
  IF s = <<>> \/ \E i \in 1..Len(s) : \A d \in 1..10 : DigitChar[d] # s[i]
    THEN -1
  ELSE IF Len(s) = 1 THEN (CHOOSE d \in 1..10 : DigitChar[d] = s[1]) - 1
  ELSE 10 * DecimalValue(SubSeq(s, 1, Len(s) - 1))
         + (CHOOSE d \in 1..10 : DigitChar[d] = s[Len(s)]) - 1

\* req is the request of operation op for the argument bag args
IsRequestOf(req, op, args) ==
  /\ req.method = op.method
  /\ Head(req.url) = op.path
  /\ op.arg = "" => Len(req.url) = 1
  /\ op.arg \in {"id", "userId"} =>
       /\ IsInteger(Get(args, op.arg))
       /\ Get(args, op.arg).c > 0
       /\ 100 * DecimalValue(Tail(req.url)) = Get(args, op.arg).c
  /\ req.data # Undefined <=> op.method \in {"POST", "PUT"}
  /\ req.data # Undefined => req.data.t = "object"
  /\ req.params # Undefined => op.method = "GET" /\ op.arg = ""

\* C14: every HTTP request the program issues uses the method and path of
\* the invoked tool's operation (list, get, categories, by category, user
\* carts, add, update, delete); POST and PUT carry a body, GET and DELETE
\* none; every {id} / {userId} segment is the validated positive-integer
\* argument in decimal.
C14_MethodAndPath ==
  (Responded /\ call.issued # <<>>) =>
    /\ call.name \in CatalogNames
    /\ Len(call.issued) = 1
    /\ IsRequestOf(call.issued[1], Operation(call.name), call.args)

\* C14 witness: the carts of user 12 were requested
C14_Witness ==
  /\ Responded
  /\ call.name = "fakestore_get_user_carts"
  /\ call.issued # <<>>
  /\ call.issued[1].method = "GET"
  /\ call.issued[1].url = <<"/carts/user/", "1", "2">>


\* JSON.stringify(data, null, 2) of the values the upstream returns in the
\* model, written out
PrettyPrinted(data) ==
  CASE data = Obj([id |-> IntV(1), title |-> Str(<<"T">>)]) ->
         "{\n  \"id\": 1,\n  \"title\": \"T\"\n}"
    [] data = Arr(<<>>) -> "[]"
    [] data = Arr(<<Obj([id |-> IntV(2), price |-> Num(10995)])>>) ->
         "[\n  {\n    \"id\": 2,\n    \"price\": 109.95\n  }\n]"
    [] data = Arr(<<Str(<<"t", "v">>), Str(<<"a", "\"">>)>>) ->
         "[\n  \"tv\",\n  \"a\\\"\"\n]"
    [] data = Null -> "null"

\* C15: when the resource function succeeds the envelope's text is the
\* 2-space pretty-printed JSON of exactly the value the upstream returned
\* and the envelope carries no isError; isError is set on an envelope if and
\* only if the invocation failed.
C15_SuccessEnvelope ==
  Responded =>
    /\ ~Failed =>
         /\ call.outcome = "ok"
         /\ IsEnvelope(call.response)
         /\ "isError" \notin DOMAIN call.response
         /\ ResponseText(call.response) = PrettyPrinted(call.upstream)
    /\ IsErrorEnvelope(call.response) <=> Failed

\* C15 witness: a nested upstream value was returned pretty-printed
C15_Witness ==
  /\ Responded
  /\ ~Failed
  /\ call.upstream = Arr(<<Obj([id |-> IntV(2), price |-> Num(10995)])>>)
  /\ ResponseText(call.response)
       = "[\n  {\n    \"id\": 2,\n    \"price\": 109.95\n  }\n]"


\* C16: no state is retained between calls except the request counter: a
\* tool invocation changes nothing but requestCount and its pending
\* decrement timers (one increment and at most one new timer, for the one
\* request it makes), and an invocation that fails validation leaves
\* requestCount unchanged and schedules no timer.
C16_OnlyCounterChanges ==
  [][(phase = "idle" /\ phase' = "responded") =>
       /\ now' = now
       /\ \/ requestCount' = requestCount /\ timers' = timers
          \/ /\ requestCount' = requestCount + 1
             /\ call'.issued # <<>>
             /\ timers' \in {timers,
                             timers (+) SetToBag({now + RATE_LIMIT_WINDOW})}
       /\ (call'.failure # Undefined /\ call'.issued = <<>>) =>
            /\ requestCount' = requestCount
            /\ timers' = timers
            /\ ~call'.scheduled]_vars

\* C16 witness: an invocation failed validation and the counter is still 0
\* with no timer pending
C16_Witness ==
  /\ Responded
  /\ call.failure = JSError("Product ID must be a positive integer")
  /\ call.issued = <<>>
  /\ requestCount = 0
  /\ timers = EmptyBag


ListNames == {"fakestore_get_products", "fakestore_get_carts",
               "fakestore_get_users"}

SortTokens == {Str(<<"a", "s", "c">>), Str(<<"d", "e", "s", "c">>)}

\* a limit that is absent or a positive integer
LimitPasses(limit) ==
  limit = Undefined \/ (IsInteger(limit) /\ limit.c > 0)

\* C17: sort-order validation accepts exactly 'asc', 'desc' and an absent
\* sort and rejects every other value, case variants such as 'ASC' and the
\* empty string included; on the list tools a rejected sort fails with the
\* sort-order message and no GET is issued, an accepted one is passed on as
\* the query parameter sort.
C17_SortOrder ==
  (/\ Responded
   /\ call.name \in ListNames
   /\ call.args # Undefined
   /\ LimitPasses(Get(call.args, "limit"))) =>
    /\ Get(call.args, "sort") \notin SortTokens \cup {Undefined} =>
         /\ call.issued = <<>>
         /\ ~call.sent
         /\ call.failure = JSError("Sort order must be \"asc\" or \"desc\"")
         /\ IsErrorEnvelope(call.response)
    /\ Get(call.args, "sort") \in SortTokens \cup {Undefined} =>
         /\ Len(call.issued) = 1
         /\ call.issued[1].method = "GET"
         /\ Get(call.issued[1].params, "sort") = Get(call.args, "sort")

\* C17 witness: the carts list was asked with sort 'ASC' and was rejected
C17_Witness ==
  /\ Responded
  /\ call.name = "fakestore_get_carts"
  /\ call.args # Undefined
  /\ Get(call.args, "sort") = Str(<<"A", "S", "C">>)
  /\ call.issued = <<>>
  /\ ResponseText(call.response) = "Error: Sort order must be \"asc\" or \"desc\""


\* the invocation reaches validateUrl(image, 'Image URL'): the checks that
\* come before it in addProduct / updateProduct pass and an image is supplied
ReachesValidateUrl ==
  /\ Responded
  /\ call.args # Undefined
  /\ Get(call.args, "image") # Undefined
  /\ \/ /\ call.name = "fakestore_update_product"
        /\ IsInteger(Get(call.args, "id")) /\ Get(call.args, "id").c > 0
     \/ /\ call.name = "fakestore_add_product"
        /\ ValidText(Get(call.args, "title"))
        /\ Get(call.args, "price").t = "number" /\ Get(call.args, "price").c > 0
        /\ ValidText(Get(call.args, "description"))

\* C18: the URL validator accepts exactly the non-empty strings that parse
\* as an absolute URL with scheme http: or https:; a parseable URL with
\* another scheme (ftp:) fails with '<field> must use HTTP or HTTPS
\* protocol', a string that does not parse with '<field> must be a valid
\* URL'.
C18_UrlValidator ==
  ReachesValidateUrl =>
    /\ ~IsHttpUrl(Get(call.args, "image")) =>
         call.issued = <<>> /\ Failed
    /\ (/\ IsHttpUrl(Get(call.args, "image"))
        /\ call.name = "fakestore_update_product") => call.issued # <<>>
    /\ (/\ ValidText(Get(call.args, "image"))
        /\ URLParse(Get(call.args, "image").s).ok
        /\ ~IsHttpUrl(Get(call.args, "image"))) =>
         call.failure = JSError("Image URL must use HTTP or HTTPS protocol")
    /\ (/\ ValidText(Get(call.args, "image"))
        /\ ~URLParse(Get(call.args, "image").s).ok) =>
         call.failure = JSError("Image URL must be a valid URL")


\* C19: the rate limiter recovers: whatever requests came before, rejected
\* ones included, once every scheduled decrement has fired requestCount is 0
\* again and the next request passes the interceptor.
C19_RateLimiterRecovers ==
  timers = EmptyBag =>
    /\ requestCount = 0
    /\ ~Interceptor(requestCount).rejected


\* C20: under any interleaving of overlapping invocations and timer
\* callbacks requestCount is never negative and never below the number of
\* pending decrement timers, and at most RATE_LIMIT requests whose decrement
\* is pending have passed the interceptor (no more than 100 requests go
\* upstream within one window).
C20_CounterBounds ==
  /\ requestCount >= 0
  /\ requestCount >= BagCardinality(timers)
  /\ BagCardinality(timers) <= RATE_LIMIT
  /\ Cardinality({f \in BagToSet(inflight) : ~f.ic.rejected}) <= RATE_LIMIT

\* C20 witness: two invocations await at once, one sent as the 100th
\* request of the window and one rejected, with 100 decrements pending
C20_Witness ==
  /\ BagCardinality(timers) = RATE_LIMIT
  /\ requestCount > RATE_LIMIT
  /\ \E f, g \in BagToSet(inflight) : ~f.ic.rejected /\ g.ic.rejected


\* C21: a list tool (no required parameter) invoked with the argument bag
\* omitted behaves as with an empty bag: it issues the list GET without
\* query parameters, and returns a success envelope when the upstream
\* answers.
C21_OmittedBag ==
  (Responded /\ call.name \in ListNames /\ call.args = Undefined) =>
    /\ Len(call.issued) = 1
    /\ call.issued[1].method = "GET"
    /\ call.issued[1].url = <<Operation(call.name).path>>
    /\ call.issued[1].params = Obj(EmptyObject)
    /\ call.outcome = "ok" =>
         /\ ~Failed
         /\ IsEnvelope(call.response)
         /\ ~IsErrorEnvelope(call.response)


\* C22: getProductsByCategory never issues a request whose category path
\* segment is empty: an empty or whitespace-only category fails the
\* non-empty-string check before any request is made.
C22_CategorySegmentNotEmpty ==
  (Responded /\ call.name = "fakestore_get_products_by_category") =>
    /\ call.issued # <<>> => Len(call.issued[1].url) > 1
    /\ (/\ call.args # Undefined
        /\ Get(call.args, "category").t = "string"
        /\ Trim(Get(call.args, "category").s) = <<>>) =>
         /\ call.issued = <<>>
         /\ call.failure = JSError("Category must be a non-empty string")
         /\ IsErrorEnvelope(call.response)


====
